---- MODULE Spec2Model ----
(***************************************************************************)
(* Control flow of main.py of fr-optical-flow: main (epoch loop, learning  *)
(* rate scheduler, validation, checkpoint decision), train (three          *)
(* variants, multi-scale loss loops, optimizer step) and validate.         *)
(*                                                                         *)
(* Abstractions.  A tensor is an integer: an image is a pixel value, a     *)
(* flow field is a displacement, a flow pyramid is a function from the     *)
(* level index 0..N-1 to a displacement.  Losses are carried in            *)
(* thousandths (Milli) so that the 0.001 coefficient of line 398 stays     *)
(* exact.  A Python value is a record [kind, val] whose kind is "int",     *)
(* "float" or "tensor": only a tensor has .item() and .backward().         *)
(* Averages are exact fractions [num, den] in lowest terms.                *)
(* The outputs of the network are not computed: each forward pass returns  *)
(* any pyramid over dataset.flows.  args.sparse is taken False.                    *)
(***************************************************************************)
EXTENDS Integers, Sequences, FiniteSets, TLC

\* ---------------------------------------------------------------- bounds
MaxLen == 2        \* len(train_loader) ranges over 0..MaxLen
MaxCap == 2        \* args.epoch_size ranges over 0..MaxCap
MaxEpochs == 2     \* config["epochs"] ranges over 1..MaxEpochs
MaxValLen == 2     \* len(val_loader) ranges over 1..MaxValLen
MaxLevels == 2     \* length N of the flow pyramid ranges over 1..MaxLevels

\* ------------------------------------------------------ program constants
div_flow == 20
Milli == 1000
NumOutputWriters == 3

\* multiscale weights of line 321 / line 65, in thousandths
weights == [i \in 0..4 |-> CASE i = 0 -> 5 [] i = 1 -> 10 [] i = 2 -> 20
                             [] i = 3 -> 80 [] OTHER -> 320]

\* --------------------------------------------------------- Python values
Abs(x) == IF x < 0 THEN -x ELSE x

Min(a, b) == IF a < b THEN a ELSE b

PyInt(v) == [kind |-> "int", val |-> v * Milli]

Tensor(v) == [kind |-> "tensor", val |-> v * Milli]

JoinKind(a, b) ==
    IF a = "tensor" \/ b = "tensor" THEN "tensor"
    ELSE IF a = "float" \/ b = "float" THEN "float" ELSE "int"

\* a + b
PyAdd(a, b) == [kind |-> JoinKind(a.kind, b.kind), val |-> a.val + b.val]

\* 0.001 * a
PyMul001(a) == [kind |-> JoinKind("float", a.kind), val |-> a.val \div Milli]

\* x.item() and x.backward() exist only on tensors
HasItem(x) == x.kind = "tensor"

\* ----------------------------------------------------- exact fractions
RECURSIVE GCD(_, _)
GCD(a, b) == IF b = 0 THEN a ELSE GCD(b, a % b)

Rat(n, d) == LET g == GCD(Abs(n), d) IN [num |-> n \div g, den |-> d \div g]

RatLess(a, b) == a.num * b.den < b.num * a.den

RatMin(a, b) == IF RatLess(b, a) THEN b ELSE a

\* ------------------------------------------------------- AverageMeter
MeterReset == [sum |-> 0, count |-> 0]

MeterUpdate(m, v, n) == [sum |-> m.sum + v * n, count |-> m.count + n]

MeterAvg(m) == IF m.count = 0 THEN Rat(0, 1) ELSE Rat(m.sum, m.count)

\* ------------------------------------------------------------ loss terms
\* own_loss and multiscaleloss, on the integer abstraction of tensors
ternary_loss(ima, imb, flow, max_distance) == Abs(ima - imb) + Abs(flow) \div max_distance

smoothness_loss(flow, cfg) == 2 * Abs(flow) + 1

ssim(ima, imb, flow) == Abs(ima + flow - imb) + 2

forward_backward_loss(ima, imb, flow_fw, flow_bw, cfg) == Abs(flow_fw + flow_bw) + Abs(ima - imb)

photometric_loss(ima, imb, flow, cfg) == Abs(imb + flow - ima) + 3

weighted_smoothness_loss(ima, imb, flow, cfg) == Abs(flow) + Abs(ima - imb) + 1

realEPE(flow, target) == Abs(flow - target)

RECURSIVE multiscaleEPE(_, _, _, _)
multiscaleEPE(output, target, n, i) ==
    IF i >= n THEN 0
    ELSE weights[i] * realEPE(output[i], target) + multiscaleEPE(output, target, n, i + 1)

\* ------------------------------------------------------- configuration
get_default_config ==
    [weighted_sl_loss |-> TRUE, epochs |-> 1000,
     multiscale_sl_loss |-> TRUE, multiscale_pl_loss |-> TRUE,
     multiscale_census_loss |-> TRUE, multiscale_ssim_loss |-> TRUE,
     multiscale_fb_loss |-> TRUE,
     sl |-> TRUE, census |-> TRUE, ssim |-> FALSE, fb |-> FALSE]

VARIABLES
    args,          \* parsed command line: self_supervised_loss, unflow, evaluate, epoch_size
    config,        \* the config dict handed to main
    loaders,       \* [train |-> len(train_loader), val |-> len(val_loader)]
    levels,        \* length of the pyramid the architecture returns
    dataset,       \* value ranges: pixels, targets, sizes of the data, flows of the network
    pc,            \* position of main: start, loop, train, sched, val, validate,
                   \* validated, ckpt, done, error
    epoch,         \* loop variable of main (the epoch argument of train and validate)
    it,            \* number of batches the running loop has fetched
    broke,         \* the training loop has executed its break
    n_iter,        \* global n_iter
    best_EPE,      \* global best_EPE
    losses,        \* train: losses = AverageMeter()
    flow2_EPEs,    \* train / validate: flow2_EPEs = AverageMeter()
    ret,           \* value returned by the last call of train or validate
    grad_enabled,  \* torch gradient mode
    model_mode,    \* "train" after model.train(), "eval" after model.eval()
    params,        \* version of the model parameters (changed by optimizer.step)
    optim,         \* calls made so far: zero_grad, backward, step
    sched,         \* scheduler.step() calls made so far
    calls,         \* calls made so far: train, validate, model
    checkpoints,   \* save_checkpoint calls so far, those with is_best, the last record
    train_log,     \* iteration indices of the 'train_loss' scalars
    test_log,      \* test_writer 'mean EPE' scalars so far: how many, and the least
    images,        \* output_writers add_image calls: {[writer, tag, step, epoch]}
    batch          \* what the last processed batch computed

vars == <<args, config, loaders, levels, dataset, pc, epoch, it, broke, n_iter, best_EPE,
          losses, flow2_EPEs, ret, grad_enabled, model_mode, params, optim, sched,
          calls, checkpoints, train_log, test_log, images, batch>>

NoBatch == [variant |-> "none"]

NoRet == [loss |-> Rat(0, 1), EPE |-> Rat(0, 1), of |-> "none"]

Ev(op, level) == [op |-> op, level |-> level]

Pyramids == [0..(levels - 1) -> dataset.flows]

\* ------------------------------------------------ multi-scale loss loops
\* for i in range(n): loss = vals[i]; acc += loss; lst.append(loss.item());
\*                    if not multiscale: break
\* variant of MultiScaleLoop: the loop without its break
RECURSIVE MultiScaleLoopNoBreak(_, _, _, _, _)
MultiScaleLoopNoBreak(vals, n, i, r, multiscale) ==
    IF i >= n THEN r
    ELSE MultiScaleLoopNoBreak(vals, n, i + 1,
           [loss |-> PyAdd(r.loss, Tensor(vals[i])),
            list |-> Append(r.list, vals[i] * Milli),
            evals |-> Append(r.evals, i)], multiscale)

\* variant of MultiScaleLoop: acc = loss in place of acc += loss
RECURSIVE MultiScaleLoopAssign(_, _, _, _, _)
MultiScaleLoopAssign(vals, n, i, r, multiscale) ==
    IF i >= n THEN r
    ELSE LET r2 == [loss |-> Tensor(vals[i]),
                    list |-> Append(r.list, vals[i] * Milli),
                    evals |-> Append(r.evals, i)]
         IN IF ~multiscale THEN r2
            ELSE MultiScaleLoopAssign(vals, n, i + 1, r2, multiscale)

RECURSIVE MultiScaleLoop(_, _, _, _, _)
MultiScaleLoop(vals, n, i, r, multiscale) ==
    IF i >= n THEN r
    ELSE LET r2 == [loss |-> PyAdd(r.loss, Tensor(vals[i])),
                    list |-> Append(r.list, vals[i] * Milli),
                    evals |-> Append(r.evals, i)]
         IN IF ~multiscale THEN r2
            ELSE MultiScaleLoop(vals, n, i + 1, r2, multiscale)

\* xxx_loss = 0 ; xxx_loss_list = []
TermInit == [loss |-> PyInt(0), list |-> <<>>, evals |-> <<>>]

census_term(cfg, im1, im2, pred_fw, pred_bw, n) ==
    IF cfg.census
    THEN MultiScaleLoop(
           [i \in 0..(n - 1) |->
              ternary_loss(im2, im1, pred_fw[i] * div_flow, 1)
              + ternary_loss(im1, im2, pred_bw[i] * div_flow, 1)],
           n, 0, TermInit, cfg.multiscale_census_loss)
    ELSE TermInit

sl_term(cfg, pred_fw, pred_bw, n) ==
    IF cfg.sl
    THEN MultiScaleLoop(
           [i \in 0..(n - 1) |->
              smoothness_loss(pred_fw[i] * div_flow, cfg)
              + smoothness_loss(pred_bw[i] * div_flow, cfg)],
           n, 0, TermInit, cfg.multiscale_sl_loss)
    ELSE TermInit

ssim_term(cfg, im1, im2, pred_bw, n) ==
    IF cfg.ssim
    THEN MultiScaleLoop(
           [i \in 0..(n - 1) |-> ssim(im1, im2, pred_bw[i] * div_flow)],
           n, 0, TermInit, cfg.multiscale_ssim_loss)
    ELSE TermInit

fb_term(cfg, im1, im2, pred_fw, pred_bw, n) ==
    IF cfg.fb
    THEN MultiScaleLoop(
           [i \in 0..(n - 1) |->
              forward_backward_loss(im1, im2, pred_fw[i] * div_flow,
                                    pred_bw[i] * div_flow, cfg)],
           n, 0, TermInit, cfg.multiscale_fb_loss)
    ELSE TermInit

pl_term(cfg, im1, im2, pred, n) ==
    MultiScaleLoop(
      [i \in 0..(n - 1) |-> photometric_loss(im1, im2, pred[i] * div_flow, cfg)],
      n, 0, TermInit, cfg.multiscale_pl_loss)

sl_term_selfsup(cfg, im1, im2, pred, n) ==
    IF cfg.weighted_sl_loss
    THEN MultiScaleLoop(
           [i \in 0..(n - 1) |->
              weighted_smoothness_loss(im1, im2, pred[i] * div_flow, cfg)],
           n, 0, TermInit, cfg.multiscale_sl_loss)
    ELSE MultiScaleLoop(
           [i \in 0..(n - 1) |-> smoothness_loss(pred[i] * div_flow, cfg)],
           n, 0, TermInit, cfg.multiscale_sl_loss)

\* one trace entry per evaluation of a loss term
TermTrace(name, term) == [k \in 1..Len(term.evals) |-> Ev(name, term.evals[k])]

\* loss = census_loss + sl_loss + ssim_loss + 0.001*fb_loss
unflow_loss(census, sl, ssim_l, fb) ==
    PyAdd(PyAdd(PyAdd(census, sl), ssim_l), PyMul001(fb))

\* variant of UpdateTrace: the optimizer is stepped before backward
UpdateTraceStepFirst ==
    <<Ev("losses.update", 0), Ev("realEPE", 0), Ev("EPEs.update", 0),
      Ev("zero_grad", 0), Ev("step", 0), Ev("backward", 0), Ev("n_iter", 0)>>

\* variant of UpdateTrace: the meters are updated after the optimizer step
UpdateTraceAfterStep ==
    <<Ev("zero_grad", 0), Ev("backward", 0), Ev("step", 0),
      Ev("losses.update", 0), Ev("realEPE", 0), Ev("EPEs.update", 0),
      Ev("n_iter", 0)>>

\* record loss and EPE, then compute gradient and do optimization step
UpdateTrace ==
    <<Ev("losses.update", 0), Ev("realEPE", 0), Ev("EPEs.update", 0),
      Ev("zero_grad", 0), Ev("backward", 0), Ev("step", 0), Ev("n_iter", 0)>>

\* variant of unflow_forward: the backward prediction is not computed
unflow_forward_once == <<Ev("model_fw", 0)>>

\* pred_fw = model(input_fw) ; pred_bw = model(input_bw)
unflow_forward == <<Ev("model_fw", 0), Ev("model_bw", 0)>>

\* number of forward passes in a trace
ModelCalls(trace) ==
    Cardinality({k \in 1..Len(trace) : trace[k].op \in {"model", "model_fw", "model_bw"}})

\* variant of unflow_batch: the endpoint error is added to the optimized loss
unflow_batch_supervised(cfg, im1, im2, target, size, pred_fw, pred_bw) ==
    LET n_fw == levels
        n_bw == levels
        census == census_term(cfg, im1, im2, pred_fw, pred_bw, n_fw)
        sl == sl_term(cfg, pred_fw, pred_bw, n_fw)
        ssim_l == ssim_term(cfg, im1, im2, pred_bw, n_bw)
        fb == fb_term(cfg, im1, im2, pred_fw, pred_bw, n_bw)
        loss == PyAdd(unflow_loss(census.loss, sl.loss, ssim_l.loss, fb.loss),
                      Tensor(div_flow * realEPE(pred_bw[0], target)))
    IN [variant |-> "unflow", im1 |-> im1, im2 |-> im2, target |-> target,
        size |-> size, pred_fw |-> pred_fw, pred_bw |-> pred_bw,
        terms |-> [census |-> census, sl |-> sl, ssim |-> ssim_l, fb |-> fb],
        loss |-> loss,
        EPE |-> div_flow * realEPE(pred_bw[0], target),
        ok |-> HasItem(loss),
        grad |-> grad_enabled,
        trace |-> unflow_forward
                  \o TermTrace("census", census) \o TermTrace("sl", sl)
                  \o TermTrace("ssim", ssim_l) \o TermTrace("fb", fb)
                  \o (IF HasItem(loss) THEN UpdateTrace ELSE <<>>)]

\* body of one iteration of the unflow loop, up to and including line 398
unflow_batch(cfg, im1, im2, target, size, pred_fw, pred_bw) ==
    LET n_fw == levels
        n_bw == levels
        census == census_term(cfg, im1, im2, pred_fw, pred_bw, n_fw)
        sl == sl_term(cfg, pred_fw, pred_bw, n_fw)
        ssim_l == ssim_term(cfg, im1, im2, pred_bw, n_bw)
        fb == fb_term(cfg, im1, im2, pred_fw, pred_bw, n_bw)
        loss == unflow_loss(census.loss, sl.loss, ssim_l.loss, fb.loss)
    IN [variant |-> "unflow", im1 |-> im1, im2 |-> im2, target |-> target,
        size |-> size, pred_fw |-> pred_fw, pred_bw |-> pred_bw,
        terms |-> [census |-> census, sl |-> sl, ssim |-> ssim_l, fb |-> fb],
        loss |-> loss,
        EPE |-> div_flow * realEPE(pred_bw[0], target),
        ok |-> HasItem(loss),
        grad |-> grad_enabled,
        trace |-> unflow_forward
                  \o TermTrace("census", census) \o TermTrace("sl", sl)
                  \o TermTrace("ssim", ssim_l) \o TermTrace("fb", fb)
                  \o (IF HasItem(loss) THEN UpdateTrace ELSE <<>>)]

\* body of one iteration of the self-supervised (non-unflow) loop, up to line 476
selfsup_batch(cfg, im1, im2, target, size, pred) ==
    LET pl == pl_term(cfg, im1, im2, pred, levels)
        sl == sl_term_selfsup(cfg, im1, im2, pred, levels)
        loss == PyAdd(pl.loss, sl.loss)
    IN [variant |-> "selfsup", im1 |-> im1, im2 |-> im2, target |-> target,
        size |-> size, pred_fw |-> pred, pred_bw |-> pred,
        terms |-> [pl |-> pl, sl |-> sl],
        loss |-> loss,
        EPE |-> div_flow * realEPE(pred[0], target),
        ok |-> HasItem(loss),
        grad |-> grad_enabled,
        trace |-> <<Ev("model", 0)>>
                  \o TermTrace("pl", pl) \o TermTrace("sl", sl)
                  \o (IF HasItem(loss) THEN UpdateTrace ELSE <<>>)]

\* body of one iteration of the legacy supervised loop, up to line 296
legacy_batch(im1, im2, target, size, output) ==
    LET loss == [kind |-> "tensor", val |-> multiscaleEPE(output, target, levels, 0)]
    IN [variant |-> "legacy", im1 |-> im1, im2 |-> im2, target |-> target,
        size |-> size, pred_fw |-> output, pred_bw |-> output,
        terms |-> [supervised |-> [loss |-> loss, list |-> <<>>, evals |-> <<>>]],
        loss |-> loss,
        EPE |-> div_flow * realEPE(output[0], target),
        ok |-> TRUE,
        grad |-> grad_enabled,
        trace |-> <<Ev("model", 0), Ev("multiscaleEPE", 0), Ev("realEPE", 0),
                    Ev("losses.update", 0), Ev("EPEs.update", 0),
                    Ev("zero_grad", 0), Ev("backward", 0), Ev("step", 0),
                    Ev("n_iter", 0)>>]

\* epoch_size = len(train_loader) if args.epoch_size == 0 else min(...)
epoch_size ==
    IF args.epoch_size = 0 THEN loaders.train
    ELSE Min(loaders.train, args.epoch_size)

\* if it >= epoch_size: break   (it is the index of the batch just processed)
BreakAfter(index) == index >= epoch_size

\* ---------------------------------------------------------------- train
\* variant of Processed: the scalar index and counter restart in every epoch
ProcessedPerEpochIndex(b) ==
    /\ losses' = MeterUpdate(losses, b.loss.val, b.size)
    /\ flow2_EPEs' = MeterUpdate(flow2_EPEs, b.EPE, b.size)
    /\ train_log' = Append(train_log, it)
    /\ optim' = [zero_grad |-> optim.zero_grad + 1,
                 backward |-> optim.backward + 1,
                 step |-> optim.step + 1]
    /\ params' = params + 1
    /\ calls' = [calls EXCEPT !.model = @ + ModelCalls(b.trace)]
    /\ n_iter' = it + 1
    /\ broke' = BreakAfter(it)
    /\ it' = it + 1
    /\ batch' = b
    /\ pc' = "train"

\* variant of Processed: the meters are updated without the batch size
ProcessedUnweighted(b) ==
    /\ losses' = MeterUpdate(losses, b.loss.val, 1)
    /\ flow2_EPEs' = MeterUpdate(flow2_EPEs, b.EPE, 1)
    /\ train_log' = Append(train_log, n_iter)
    /\ optim' = [zero_grad |-> optim.zero_grad + 1,
                 backward |-> optim.backward + 1,
                 step |-> optim.step + 1]
    /\ params' = params + 1
    /\ calls' = [calls EXCEPT !.model = @ + ModelCalls(b.trace)]
    /\ n_iter' = n_iter + 1
    /\ broke' = BreakAfter(it)
    /\ it' = it + 1
    /\ batch' = b
    /\ pc' = "train"

\* the part of an iteration all three variants share: meters, scalars,
\* zero_grad / backward / step, n_iter += 1, the break test
Processed(b) ==
    /\ losses' = MeterUpdate(losses, b.loss.val, b.size)
    /\ flow2_EPEs' = MeterUpdate(flow2_EPEs, b.EPE, b.size)
    /\ train_log' = Append(train_log, n_iter)
    /\ optim' = [zero_grad |-> optim.zero_grad + 1,
                 backward |-> optim.backward + 1,
                 step |-> optim.step + 1]
    /\ params' = params + 1
    /\ calls' = [calls EXCEPT !.model = @ + ModelCalls(b.trace)]
    /\ n_iter' = n_iter + 1
    /\ broke' = BreakAfter(it)
    /\ it' = it + 1
    /\ batch' = b
    /\ pc' = "train"

\* a batch whose loss has no .item(): the AttributeError leaves main
Raised(b) ==
    /\ batch' = b
    /\ calls' = [calls EXCEPT !.model = @ + ModelCalls(b.trace)]
    /\ pc' = "error"
    /\ UNCHANGED <<losses, flow2_EPEs, train_log, optim, params, n_iter, broke, it>>

TrainFrame ==
    UNCHANGED <<args, config, loaders, levels, dataset, epoch, best_EPE, ret,
                grad_enabled, model_mode, sched, checkpoints, test_log, images>>

Fetching == pc = "train" /\ ~broke /\ it < loaders.train

\* variant of train_variant: args.unflow is tested first
train_variant_unflow_first(a) ==
    IF a.unflow THEN "unflow"
    ELSE IF ~a.self_supervised_loss THEN "legacy"
    ELSE "selfsup"

\* if not args.self_supervised_loss: ... elif args.unflow: ... else: ...
train_variant(a) ==
    IF ~a.self_supervised_loss THEN "legacy"
    ELSE IF a.unflow THEN "unflow"
    ELSE "selfsup"

TrainLegacy ==
    /\ Fetching
    /\ train_variant(args) = "legacy"
    /\ \E im1 \in dataset.pixels, im2 \in dataset.pixels, target \in dataset.targets,
          size \in dataset.sizes, output \in Pyramids :
         Processed(legacy_batch(im1, im2, target, size, output))
    /\ TrainFrame

TrainUnflow ==
    /\ Fetching
    /\ train_variant(args) = "unflow"
    /\ \E im1 \in dataset.pixels, im2 \in dataset.pixels, target \in dataset.targets,
          size \in dataset.sizes, pred_fw \in Pyramids, pred_bw \in Pyramids :
         LET b == unflow_batch(config, im1, im2, target, size, pred_fw, pred_bw)
         IN IF b.ok THEN Processed(b) ELSE Raised(b)
    /\ TrainFrame

TrainSelfSup ==
    /\ Fetching
    /\ train_variant(args) = "selfsup"
    /\ \E im1 \in dataset.pixels, im2 \in dataset.pixels, target \in dataset.targets,
          size \in dataset.sizes, pred \in Pyramids :
         LET b == selfsup_batch(config, im1, im2, target, size, pred)
         IN IF b.ok THEN Processed(b) ELSE Raised(b)
    /\ TrainFrame

\* the calls of one iteration of a training loop, in the order the unflow
\* loop makes them (lines 323-419); the legacy loop calls realEPE before
\* losses.update, and the non-unflow loop writes two more scalars after
\* 'train_loss', which changes nothing of what follows
Stages ==
    <<"fetch", "model", "loss", "losses.update", "realEPE", "add_scalar",
      "EPEs.update", "zero_grad", "backward", "step", "batch_time.update",
      "print">>

\* position of a call in Stages
StageIndex(call) == CHOOSE k \in 1..Len(Stages) : Stages[k] = call

\* the call had returned when the call Stages[k] raised
Returned(call, k) == StageIndex(call) < k

\* number of model calls one iteration of a variant makes
forwards(variant) == IF variant = "unflow" THEN Len(unflow_forward) ELSE 1

\* variant of TrainFails: the exception is swallowed and the loop goes on
TrainFailsCaught ==
    /\ Fetching
    /\ \E k \in 1..Len(Stages) : batch' = [variant |-> "failed", stage |-> Stages[k]]
    /\ it' = it + 1
    /\ UNCHANGED <<losses, flow2_EPEs, train_log, optim, params, calls, n_iter,
                   broke, pc>>
    /\ TrainFrame

\* neither train nor main has a try block: a call that raises while a batch
\* is processed ends the run where it stands, with the effects of the calls
\* that returned before it.  "model" fails in any of the variant's forward
\* calls.  n_iter += 1 follows the last call of the iteration.  The meters
\* are locals of train and are gone when the exception leaves it.
TrainFails ==
    /\ Fetching
    /\ \E k \in 1..Len(Stages), returned \in 0..(forwards(train_variant(args)) - 1) :
         LET made == IF Returned("model", k) THEN forwards(train_variant(args))
                     ELSE IF Stages[k] = "model" THEN returned
                     ELSE 0
             one(call) == IF Returned(call, k) THEN 1 ELSE 0
         IN /\ calls' = [calls EXCEPT !.model = @ + made]
            /\ train_log' = IF Returned("add_scalar", k)
                            THEN Append(train_log, n_iter) ELSE train_log
            /\ optim' = [zero_grad |-> optim.zero_grad + one("zero_grad"),
                         backward |-> optim.backward + one("backward"),
                         step |-> optim.step + one("step")]
            /\ params' = params + one("step")
            /\ batch' = [variant |-> "failed", stage |-> Stages[k]]
    /\ losses' = MeterReset
    /\ flow2_EPEs' = MeterReset
    /\ pc' = "error"
    /\ UNCHANGED <<n_iter, broke, it>>
    /\ TrainFrame

\* return losses.avg, flow2_EPEs.avg
TrainReturn ==
    /\ pc = "train"
    /\ broke \/ it >= loaders.train
    /\ ret' = [loss |-> MeterAvg(losses), EPE |-> MeterAvg(flow2_EPEs), of |-> "train"]
    /\ pc' = "sched"
    /\ losses' = MeterReset /\ flow2_EPEs' = MeterReset /\ batch' = NoBatch
    /\ UNCHANGED <<args, config, loaders, levels, dataset, epoch, it, broke, n_iter,
                   best_EPE, grad_enabled, model_mode, params,
                   optim, sched, calls, checkpoints, train_log, test_log, images>>

\* ------------------------------------------------------------- validate
\* entry of validate: flow2_EPEs = AverageMeter(); model.eval().  The call of
\* line 245 is made inside "with torch.no_grad()", the call of line 228 is not.
ValidateCall ==
    /\ pc = "val"
    /\ grad_enabled' = IF args.evaluate THEN grad_enabled ELSE FALSE
    /\ flow2_EPEs' = MeterReset
    /\ model_mode' = "eval"
    /\ it' = 0
    /\ calls' = [calls EXCEPT !.validate = @ + 1]
    /\ batch' = NoBatch
    /\ pc' = "validate"
    /\ UNCHANGED <<args, config, loaders, levels, dataset, epoch, broke, n_iter,
                   best_EPE, losses, ret, params, optim, sched, checkpoints,
                   train_log, test_log>>
    /\ UNCHANGED images

\* variant of validate_images: the ground truth and the inputs in every epoch
validate_images_every_epoch(i, ep) ==
    IF i < NumOutputWriters
    THEN {[writer |-> i, tag |-> "GroundTruth", step |-> 0, epoch |-> ep],
          [writer |-> i, tag |-> "Inputs", step |-> 0, epoch |-> ep],
          [writer |-> i, tag |-> "Inputs", step |-> 1, epoch |-> ep],
          [writer |-> i, tag |-> "FlowNet Outputs", step |-> ep, epoch |-> ep]}
    ELSE {}

\* if i < len(output_writers): ... add_image(...)
validate_images(i, ep) ==
    IF i < NumOutputWriters
    THEN (IF ep = 0
          THEN {[writer |-> i, tag |-> "GroundTruth", step |-> 0, epoch |-> ep],
                [writer |-> i, tag |-> "Inputs", step |-> 0, epoch |-> ep],
                [writer |-> i, tag |-> "Inputs", step |-> 1, epoch |-> ep]}
          ELSE {})
         \cup {[writer |-> i, tag |-> "FlowNet Outputs", step |-> ep, epoch |-> ep]}
    ELSE {}

validate_batch(i, target, size, output) ==
    [variant |-> "validate", index |-> i, target |-> target, size |-> size,
     output |-> output,
     EPE |-> div_flow * realEPE(output, target),
     grad |-> grad_enabled,
     trace |-> <<Ev("model", 0), Ev("realEPE", 0), Ev("EPEs.update", 0)>>]

\* variant of ValidateBatch: the loop also steps the optimizer
ValidateBatchStepping ==
    /\ pc = "validate"
    /\ it < loaders.val
    /\ \E target \in dataset.targets, size \in dataset.sizes, output \in dataset.flows :
         LET b == validate_batch(it, target, size, output)
         IN /\ flow2_EPEs' = MeterUpdate(flow2_EPEs, b.EPE, b.size)
            /\ batch' = b
    /\ images' = images \cup validate_images(it, epoch)
    /\ calls' = [calls EXCEPT !.model = @ + 1]
    /\ it' = it + 1
    /\ optim' = [optim EXCEPT !.step = @ + 1]
    /\ params' = params + 1
    /\ UNCHANGED <<args, config, loaders, levels, dataset, pc, epoch, broke, n_iter,
                   best_EPE, losses, ret, grad_enabled, model_mode,
                   sched, checkpoints, train_log, test_log>>

ValidateBatch ==
    /\ pc = "validate"
    /\ it < loaders.val
    /\ \E target \in dataset.targets, size \in dataset.sizes, output \in dataset.flows :
         LET b == validate_batch(it, target, size, output)
         IN /\ flow2_EPEs' = MeterUpdate(flow2_EPEs, b.EPE, b.size)
            /\ batch' = b
    /\ images' = images \cup validate_images(it, epoch)
    /\ calls' = [calls EXCEPT !.model = @ + 1]
    /\ it' = it + 1
    /\ UNCHANGED <<args, config, loaders, levels, dataset, pc, epoch, broke, n_iter,
                   best_EPE, losses, ret, grad_enabled, model_mode, params, optim,
                   sched, checkpoints, train_log, test_log>>

\* return flow2_EPEs.avg
ValidateReturn ==
    /\ pc = "validate"
    /\ it >= loaders.val
    /\ ret' = [loss |-> Rat(0, 1), EPE |-> MeterAvg(flow2_EPEs), of |-> "validate"]
    /\ flow2_EPEs' = MeterReset
    /\ batch' = NoBatch
    /\ pc' = "validated"
    /\ UNCHANGED <<args, config, loaders, levels, dataset, epoch, it, broke, n_iter,
                   best_EPE, losses, grad_enabled, model_mode, params, optim, sched,
                   calls, checkpoints, train_log, test_log, images>>

\* ----------------------------------------------------------------- main
\* variant of InitialBest: the sentinel -1 is never replaced
InitialBestKept(EPE, best) == best

\* if best_EPE < 0: best_EPE = EPE
InitialBest(EPE, best) == IF RatLess(best, Rat(0, 1)) THEN EPE ELSE best

\* variant of IsBest: is_best = EPE <= best_EPE
IsBestOnTie(EPE, best) == ~RatLess(best, EPE)

\* is_best = EPE < best_EPE
IsBest(EPE, best) == RatLess(EPE, best)

\* variant of NextBest: best_EPE = EPE
NextBestLast(EPE, best) == EPE

\* best_EPE = min(EPE, best_EPE)
NextBest(EPE, best) == RatMin(EPE, best)

\* parser.add_argument('--solver', choices=['adam','sgd']) and
\* assert(args.solver in ['adam', 'sgd'])
Solvers == {"adam", "sgd"}

\* variant of Start: the solver name is not checked
StartUnchecked ==
    /\ pc = "start"
    /\ pc' = IF args.evaluate THEN "val" ELSE "loop"
    /\ UNCHANGED <<args, config, loaders, levels, dataset, epoch, it, broke, n_iter,
                   best_EPE, losses, flow2_EPEs, ret, grad_enabled, model_mode,
                   params, optim, sched, calls, checkpoints, train_log, test_log,
                   images, batch>>

\* parse_args (line 85) and main up to line 232: a solver outside the choices
\* ends the run; otherwise the evaluate branch or the scheduler
Start ==
    /\ pc = "start"
    /\ pc' = IF args.solver \notin Solvers THEN "error"
             ELSE IF args.evaluate THEN "val" ELSE "loop"
    /\ UNCHANGED <<args, config, loaders, levels, dataset, epoch, it, broke, n_iter,
                   best_EPE, losses, flow2_EPEs, ret, grad_enabled, model_mode,
                   params, optim, sched, calls, checkpoints, train_log, test_log,
                   images, batch>>

\* for epoch in range(int(config["epochs"])): and the entry of train
Loop ==
    /\ pc = "loop"
    /\ IF epoch < config.epochs
       THEN /\ losses' = MeterReset
            /\ flow2_EPEs' = MeterReset
            /\ model_mode' = "train"
            /\ it' = 0
            /\ broke' = FALSE
            /\ calls' = [calls EXCEPT !.train = @ + 1]
            /\ pc' = "train"
       ELSE /\ pc' = "done"
            /\ UNCHANGED <<losses, flow2_EPEs, model_mode, it, broke, calls>>
    /\ UNCHANGED <<args, config, loaders, levels, dataset, epoch, n_iter, best_EPE,
                   ret, grad_enabled, params, optim, sched, checkpoints, train_log,
                   test_log, images, batch>>

\* variant of SchedulerStep: scheduler.step() is left out
SchedulerStepSkipped ==
    /\ pc = "sched"
    /\ ret' = NoRet
    /\ pc' = "val"
    /\ UNCHANGED <<args, config, loaders, levels, dataset, epoch, it, broke, n_iter,
                   best_EPE, losses, flow2_EPEs, grad_enabled, model_mode, params,
                   optim, calls, checkpoints, train_log, test_log, images, batch, sched>>

\* scheduler.step(); train_writer.add_scalar('mean EPE', train_EPE, epoch)
SchedulerStep ==
    /\ pc = "sched"
    /\ sched' = sched + 1
    /\ ret' = NoRet
    /\ pc' = "val"
    /\ UNCHANGED <<args, config, loaders, levels, dataset, epoch, it, broke, n_iter,
                   best_EPE, losses, flow2_EPEs, grad_enabled, model_mode, params,
                   optim, calls, checkpoints, train_log, test_log, images, batch>>

\* variant of AfterValidate: the evaluate branch has no return and falls
\* through to the epoch loop
AfterValidateNoReturn ==
    /\ pc = "validated"
    /\ IF args.evaluate /\ epoch = 0 /\ calls.train = 0
       THEN /\ best_EPE' = ret.EPE
            /\ pc' = "loop"
            /\ UNCHANGED <<grad_enabled, test_log>>
       ELSE /\ grad_enabled' = TRUE
            /\ test_log' = [count |-> test_log.count + 1,
                            least |-> IF test_log.count = 0 THEN ret.EPE
                                      ELSE RatMin(test_log.least, ret.EPE)]
            /\ pc' = "ckpt"
            /\ UNCHANGED best_EPE
    /\ UNCHANGED <<args, config, loaders, levels, dataset, epoch, it, broke, n_iter,
                   losses, flow2_EPEs, ret, model_mode, params, optim, sched, calls,
                   checkpoints, train_log, images, batch>>

\* main after validate returned: best_EPE = validate(...); return  (228-229), or
\* the end of the no_grad block and test_writer.add_scalar('mean EPE', EPE, epoch)
AfterValidate ==
    /\ pc = "validated"
    /\ IF args.evaluate
       THEN /\ best_EPE' = ret.EPE
            /\ pc' = "done"
            /\ UNCHANGED <<grad_enabled, test_log>>
       ELSE /\ grad_enabled' = TRUE
            /\ test_log' = [count |-> test_log.count + 1,
                            least |-> IF test_log.count = 0 THEN ret.EPE
                                      ELSE RatMin(test_log.least, ret.EPE)]
            /\ pc' = "ckpt"
            /\ UNCHANGED best_EPE
    /\ UNCHANGED <<args, config, loaders, levels, dataset, epoch, it, broke, n_iter,
                   losses, flow2_EPEs, ret, model_mode, params, optim, sched, calls,
                   checkpoints, train_log, images, batch>>

\* lines 248-259, and the end of the loop body
Checkpoint ==
    /\ pc = "ckpt"
    /\ LET EPE == ret.EPE
           best0 == InitialBest(EPE, best_EPE)
           is_best == IsBest(EPE, best0)
           best1 == NextBest(EPE, best0)
       IN /\ best_EPE' = best1
          /\ checkpoints' =
               [count |-> checkpoints.count + 1,
                best_count |-> checkpoints.best_count + (IF is_best THEN 1 ELSE 0),
                state |-> [epoch |-> epoch + 1, state_dict |-> params,
                           best_EPE |-> best1, div_flow |-> div_flow]]
    /\ ret' = NoRet
    /\ epoch' = epoch + 1
    /\ pc' = "loop"
    /\ UNCHANGED <<args, config, loaders, levels, dataset, it, broke, n_iter, losses,
                   flow2_EPEs, grad_enabled, model_mode, params, optim, sched, calls,
                   train_log, test_log, images, batch>>

\* ------------------------------------------------------------------ Init
NoCheckpoint ==
    [count |-> 0, best_count |-> 0,
     state |-> [epoch |-> 0, state_dict |-> 0, best_EPE |-> Rat(-1, 1),
                div_flow |-> div_flow]]

InitState ==
    /\ pc = "start"
    /\ epoch = 0
    /\ it = 0
    /\ broke = FALSE
    /\ n_iter = 0
    /\ best_EPE = Rat(-1, 1)
    /\ losses = MeterReset
    /\ flow2_EPEs = MeterReset
    /\ ret = NoRet
    /\ grad_enabled = TRUE
    /\ model_mode = "train"
    /\ params = 0
    /\ optim = [zero_grad |-> 0, backward |-> 0, step |-> 0]
    /\ sched = 0
    /\ calls = [train |-> 0, validate |-> 0, model |-> 0]
    /\ checkpoints = NoCheckpoint
    /\ train_log = <<>>
    /\ test_log = [count |-> 0, least |-> Rat(0, 1)]
    /\ images = {}
    /\ batch = NoBatch

\* the three variants of train
Variants ==
    {[self_supervised_loss |-> FALSE, unflow |-> TRUE],
     [self_supervised_loss |-> TRUE, unflow |-> TRUE],
     [self_supervised_loss |-> TRUE, unflow |-> FALSE]}

MakeArgs(v, evaluate, cap) ==
    [self_supervised_loss |-> v.self_supervised_loss, unflow |-> v.unflow,
     evaluate |-> evaluate, epoch_size |-> cap, solver |-> "adam"]

\* runs of main with the default loss configuration
Init ==
    /\ \E v \in Variants, ev \in BOOLEAN, cap \in 0..MaxCap :
         args = MakeArgs(v, ev, cap)
    /\ \E e \in 1..MaxEpochs : config = [get_default_config EXCEPT !.epochs = e]
    /\ loaders \in [train : 0..MaxLen, val : 1..MaxValLen]
    /\ levels = 1
    /\ dataset = [pixels |-> {0}, flows |-> {0, 1}, targets |-> {0, 1}, sizes |-> {1, 2}]
    /\ InitState

\* the loss configurations a variant of train reads
LossConfigs(v) ==
    IF ~v.self_supervised_loss THEN {get_default_config}
    ELSE IF v.unflow
    THEN {[get_default_config EXCEPT
             !.census = f[1], !.sl = f[2], !.ssim = f[3], !.fb = f[4],
             !.multiscale_census_loss = f[5], !.multiscale_sl_loss = f[6],
             !.multiscale_ssim_loss = f[7], !.multiscale_fb_loss = f[8]] :
          f \in [1..8 -> BOOLEAN]}
    ELSE {[get_default_config EXCEPT
             !.weighted_sl_loss = f[1], !.multiscale_pl_loss = f[2],
             !.multiscale_sl_loss = f[3]] :
          f \in [1..3 -> BOOLEAN]}

\* one epoch of one batch, under every loss configuration and pyramid length
InitLoss ==
    /\ \E v \in Variants :
         /\ args = MakeArgs(v, FALSE, 0)
         /\ \E c \in LossConfigs(v) : config = [c EXCEPT !.epochs = 1]
    /\ loaders = [train |-> 1, val |-> 1]
    /\ levels \in 1..MaxLevels
    /\ dataset = [pixels |-> {0, 1}, flows |-> {0, 1}, targets |-> {0, 1},
                  sizes |-> {1, 2}]
    /\ InitState

Next ==
    \/ Start
    \/ Loop
    \/ TrainLegacy
    \/ TrainUnflow
    \/ TrainSelfSup
    \/ TrainFails
    \/ TrainReturn
    \/ SchedulerStep
    \/ ValidateCall
    \/ ValidateBatch
    \/ ValidateReturn
    \/ AfterValidate
    \/ Checkpoint

Spec == Init /\ [][Next]_vars

SpecLoss == InitLoss /\ [][Next]_vars

\* the command lines: every solver name and flag pair, and validation sets
\* longer than the list of output writers
InitArgs ==
    /\ \E v \in [self_supervised_loss : BOOLEAN, unflow : BOOLEAN], ev \in BOOLEAN,
          s \in Solvers \cup {"lbfgs"} :
         args = [MakeArgs(v, ev, 0) EXCEPT !.solver = s]
    /\ \E e \in 1..MaxEpochs : config = [get_default_config EXCEPT !.epochs = e]
    /\ loaders \in [train : 0..MaxLen, val : 1..(NumOutputWriters + MaxValLen)]
    /\ levels = 1
    /\ dataset = [pixels |-> {0}, flows |-> {0, 1}, targets |-> {0}, sizes |-> {1}]
    /\ InitState

SpecArgs == InitArgs /\ [][Next]_vars

\* the steps of a run in which every call of a collaborator returns
NextReturning ==
    \/ Start
    \/ Loop
    \/ TrainLegacy
    \/ TrainUnflow
    \/ TrainSelfSup
    \/ TrainReturn
    \/ SchedulerStep
    \/ ValidateCall
    \/ ValidateBatch
    \/ ValidateReturn
    \/ AfterValidate
    \/ Checkpoint

\* the configurations that enable any subset of the four terms of the unflow
\* loss, the default among them
TermConfigs ==
    {[get_default_config EXCEPT
        !.census = f[1], !.sl = f[2], !.ssim = f[3], !.fb = f[4]] :
     f \in [1..4 -> BOOLEAN]}

\* whole runs of main: every variant, with and without the evaluate flag, the
\* unflow variant under every subset of its loss terms
InitReturning ==
    /\ \E v \in Variants, ev \in BOOLEAN :
         /\ args = MakeArgs(v, ev, 0)
         /\ \E c \in (IF train_variant(v) = "unflow" THEN TermConfigs
                       ELSE {get_default_config}), e \in 1..MaxEpochs :
              config = [c EXCEPT !.epochs = e]
    /\ loaders \in [train : 0..MaxLen, val : 1..MaxValLen]
    /\ levels = 1
    /\ dataset = [pixels |-> {0}, flows |-> {0, 1}, targets |-> {0}, sizes |-> {1}]
    /\ InitState

\* main is one sequential thread: while every call returns, the statement that
\* is next is executed
SpecReturning ==
    InitReturning /\ [][NextReturning]_vars /\ WF_vars(NextReturning)

\* ================================================================ claims

\* the value the checkpoint step compares against: the least validation EPE of
\* the earlier epochs, the first epoch's own EPE standing in for it in epoch 0
BestSeen == IF epoch = 0 THEN ret.EPE ELSE best_EPE

\* C1: a call of train processes exactly len(train_loader) batches when
\* epoch_size = 0 and exactly min(epoch_size, len(train_loader)) batches when
\* epoch_size > 0, and never more than epoch_size batches.
C1_EpochCap ==
    pc = "sched" =>
      /\ it = (IF args.epoch_size = 0 THEN loaders.train
               ELSE IF args.epoch_size < loaders.train THEN args.epoch_size
               ELSE loaders.train)
      /\ (args.epoch_size > 0 => it <= args.epoch_size)

\* C2 (as stated): a checkpoint is persisted at the end of an epoch only if the
\* epoch's validation EPE improves on the best value seen so far; an epoch that
\* does not improve persists nothing.
C2_PersistOnlyOnImprovement ==
    [][(pc = "ckpt" /\ checkpoints'.count > checkpoints.count)
         => RatLess(ret.EPE, BestSeen)]_vars

\* C2 (amended): every epoch hands one record to the checkpoint sink; the record
\* is flagged is_best only if the epoch's validation EPE is strictly smaller
\* than the best value seen so far (the first epoch's EPE being the initial
\* best); an epoch that does not improve is persisted without the flag.
C2_BestOnlyOnImprovement ==
    [][pc = "ckpt" =>
         /\ checkpoints'.count = checkpoints.count + 1
         /\ (checkpoints'.best_count > checkpoints.best_count
               => RatLess(ret.EPE, BestSeen))
         /\ (~RatLess(ret.EPE, BestSeen)
               => checkpoints'.best_count = checkpoints.best_count)]_vars

\* an epoch after the first whose EPE did not improve has been persisted
C2_Witness ==
    /\ pc = "loop"
    /\ checkpoints.count = 2
    /\ checkpoints.best_count = 0
    /\ checkpoints.state.epoch = 2

\* C3: after the checkpoint step of every epoch, best_EPE and the best_EPE field
\* of the record just written equal the least validation EPE of the epochs run
\* so far, and best_EPE never increases once it has left the sentinel -1.
C3_BestIsMinimum ==
    [][/\ (pc' = "loop" /\ checkpoints'.count > 0) =>
            /\ best_EPE' = test_log'.least
            /\ checkpoints'.state.best_EPE = test_log'.least
            /\ checkpoints'.count = test_log'.count
       /\ (~RatLess(best_EPE, Rat(0, 1)) => ~RatLess(best_EPE, best_EPE'))]_vars

\* two epochs were checkpointed, the second one lowering a positive best_EPE
C3_Witness ==
    /\ pc = "loop"
    /\ checkpoints.count = 2
    /\ checkpoints.best_count = 1
    /\ best_EPE = test_log.least
    /\ best_EPE.num > 0

\* ---------------------------------------------- reference loss evaluation
\* the loss term `name` evaluated on level i of the pyramids of batch b, the
\* flow of the level scaled by div_flow
LevelEval(name, b, i) ==
    LET fw == b.pred_fw[i] * div_flow
        bw == b.pred_bw[i] * div_flow
    IN IF b.variant = "unflow"
       THEN CASE name = "census" ->
                   ternary_loss(b.im2, b.im1, fw, 1) + ternary_loss(b.im1, b.im2, bw, 1)
              [] name = "sl" -> smoothness_loss(fw, config) + smoothness_loss(bw, config)
              [] name = "ssim" -> ssim(b.im1, b.im2, bw)
              [] OTHER -> forward_backward_loss(b.im1, b.im2, fw, bw, config)
       ELSE CASE name = "pl" -> photometric_loss(b.im1, b.im2, fw, config)
              [] OTHER -> IF config.weighted_sl_loss
                          THEN weighted_smoothness_loss(b.im1, b.im2, fw, config)
                          ELSE smoothness_loss(fw, config)

RECURSIVE SumLevels(_, _, _)
SumLevels(name, b, i) ==
    IF i < 0 THEN 0 ELSE LevelEval(name, b, i) + SumLevels(name, b, i - 1)

TermEnabled(name, b) ==
    IF b.variant = "unflow"
    THEN CASE name = "census" -> config.census
           [] name = "sl" -> config.sl
           [] name = "ssim" -> config.ssim
           [] OTHER -> config.fb
    ELSE TRUE

TermMultiscale(name) ==
    CASE name = "census" -> config.multiscale_census_loss
      [] name = "sl" -> config.multiscale_sl_loss
      [] name = "ssim" -> config.multiscale_ssim_loss
      [] name = "fb" -> config.multiscale_fb_loss
      [] OTHER -> config.multiscale_pl_loss

\* the batch in the state went through the loss loops of a self-supervised variant
LossBatch == batch.variant \in {"unflow", "selfsup"}

\* C4: an enabled loss term whose multiscale flag is false accumulates the
\* evaluation of level 0 alone, whatever the length of the pyramid and its other
\* levels, and its per-level list has exactly one entry.
C4_FinestLevelOnly ==
    LossBatch =>
      \A name \in DOMAIN batch.terms :
        (TermEnabled(name, batch) /\ ~TermMultiscale(name)) =>
          /\ batch.terms[name].loss = Tensor(LevelEval(name, batch, 0))
          /\ batch.terms[name].list = <<LevelEval(name, batch, 0) * Milli>>
          /\ batch.terms[name].evals = <<0>>

\* a two-level pyramid with distinct levels went through a census loop whose
\* multiscale flag is off
C4_Witness ==
    /\ batch.variant = "unflow"
    /\ levels = 2
    /\ config.census /\ ~config.multiscale_census_loss
    /\ batch.pred_fw[0] # batch.pred_fw[1]
    /\ LevelEval("census", batch, 0) # LevelEval("census", batch, 1)
    /\ Len(batch.terms.census.list) = 1

\* C5: an enabled loss term whose multiscale flag is true accumulates the sum of
\* the evaluations of all N levels, evaluates every level exactly once, and its
\* per-level list has N entries that sum to the accumulated loss.
C5_SumOfAllLevels ==
    LossBatch =>
      \A name \in DOMAIN batch.terms :
        (TermEnabled(name, batch) /\ TermMultiscale(name)) =>
          /\ batch.terms[name].loss = Tensor(SumLevels(name, batch, levels - 1))
          /\ batch.terms[name].evals = [k \in 1..levels |-> k - 1]
          /\ batch.terms[name].list =
               [k \in 1..levels |-> LevelEval(name, batch, k - 1) * Milli]

\* a two-level pyramid went through a multi-scale smoothness loop, the two
\* levels contributing different values
C5_Witness ==
    /\ batch.variant = "unflow"
    /\ levels = 2
    /\ config.sl /\ config.multiscale_sl_loss
    /\ Len(batch.terms.sl.list) = 2
    /\ batch.terms.sl.list[1] # batch.terms.sl.list[2]
    /\ batch.terms.sl.loss.val = batch.terms.sl.list[1] + batch.terms.sl.list[2]

\* what the loss term `name` should contribute to the loss of batch b
RefTerm(name, b) ==
    IF ~TermEnabled(name, b) THEN 0
    ELSE IF TermMultiscale(name) THEN SumLevels(name, b, levels - 1)
    ELSE LevelEval(name, b, 0)

\* C6: in the unflow variant, for every subset of enabled loss terms, each batch
\* completes with the loss census + smoothness + ssim + 0.001*forward_backward,
\* a disabled term contributing 0 and never being evaluated.
C6_WeightedSum ==
    batch.variant = "unflow" =>
      /\ pc # "error"
      /\ batch.ok
      /\ batch.loss.val = Milli * (RefTerm("census", batch) + RefTerm("sl", batch)
                                   + RefTerm("ssim", batch))
                          + RefTerm("fb", batch)
      /\ \A name \in DOMAIN batch.terms :
           ~TermEnabled(name, batch) => batch.terms[name] = TermInit

ModelOps == {"model", "model_fw", "model_bw"}

\* C7: every batch of the unflow variant runs the model exactly twice, on
\* concat(im1, im2) and then on concat(im2, im1), before any loss term.
C7_TwoForwardPasses ==
    [][(pc = "train" /\ pc' \in {"train", "error"}
        /\ batch'.variant = "unflow") =>
         /\ calls'.model = calls.model + 2
         /\ Len(batch'.trace) > 2
         /\ batch'.trace[1].op = "model_fw"
         /\ batch'.trace[2].op = "model_bw"
         /\ \A k \in 3..Len(batch'.trace) : batch'.trace[k].op \notin ModelOps]_vars

\* the second batch of an unflow epoch has been processed, after four passes
C7_Witness ==
    /\ batch.variant = "unflow"
    /\ epoch = 0
    /\ n_iter = 2
    /\ calls.model = 4
    /\ \E k \in 3..Len(batch.trace) : batch.trace[k].op = "census"

\* C8: in every epoch the training epoch, the scheduler step, the validation
\* loop and the checkpoint decision happen once each, in this order; inside a
\* training epoch no scheduler step and no checkpoint happens.
C8_EpochOrder ==
    ~args.evaluate =>
      LET done == <<calls.train, sched, calls.validate, checkpoints.count>>
      IN /\ pc \in {"train", "sched"} => done = <<epoch + 1, epoch, epoch, epoch>>
         /\ pc = "val" => done = <<epoch + 1, epoch + 1, epoch, epoch>>
         /\ pc \in {"validate", "validated", "ckpt"}
              => done = <<epoch + 1, epoch + 1, epoch + 1, epoch>>
         /\ pc \in {"start", "loop", "done"} => done = <<epoch, epoch, epoch, epoch>>
         /\ pc = "done" => epoch = config.epochs

\* a run of two epochs has ended
C8_Witness ==
    /\ pc = "done"
    /\ ~args.evaluate
    /\ config.epochs = 2
    /\ sched = 2
    /\ calls.train = 2
    /\ n_iter > 2

\* C9: every forward pass of the validation loop runs with gradient tracking
\* disabled, whether validate was called from the epoch loop or by --evaluate.
C9_ValidateNoGrad ==
    batch.variant = "validate" => ~batch.grad

\* C10: a call of validate steps neither optimizer nor scheduler, leaves n_iter,
\* best_EPE, the parameters and the checkpoints alone, runs the model once per
\* validation batch, and returns the mean endpoint error.
C10_ValidateFrame ==
    [][/\ pc \in {"val", "validate"} =>
            /\ n_iter' = n_iter /\ best_EPE' = best_EPE /\ optim' = optim
            /\ sched' = sched /\ params' = params /\ checkpoints' = checkpoints
            /\ train_log' = train_log
       /\ pc = "val" => (it' = 0 /\ calls'.model = calls.model)
       /\ (pc = "validate" /\ pc' = "validate") =>
            (it' = it + 1 /\ calls'.model = calls.model + 1)
       /\ (pc = "validate" /\ pc' = "validated") =>
            /\ it = loaders.val
            /\ calls'.model = calls.model
            /\ flow2_EPEs.count > 0
            /\ ret'.of = "validate"
            /\ ret'.EPE.num * flow2_EPEs.count = flow2_EPEs.sum * ret'.EPE.den]_vars

\* validate has returned after two batches, in a run that had trained before
C10_Witness ==
    /\ pc = "validated"
    /\ loaders.val = 2
    /\ it = 2
    /\ optim.step > 0
    /\ ret.of = "validate"
    /\ ret.EPE.num > 0

\* ---------------------------------------------------------------- C11
\* the images the batches 0..n-1 of a validation pass of epoch ep write
PassImages(n, ep) ==
    {[writer |-> i, tag |-> "FlowNet Outputs", step |-> ep, epoch |-> ep] :
       i \in {j \in 0..(n - 1) : j < NumOutputWriters}}
    \cup (IF ep = 0
          THEN UNION {{[writer |-> i, tag |-> "GroundTruth", step |-> 0, epoch |-> 0],
                       [writer |-> i, tag |-> "Inputs", step |-> 0, epoch |-> 0],
                       [writer |-> i, tag |-> "Inputs", step |-> 1, epoch |-> 0]} :
                      i \in {j \in 0..(n - 1) : j < NumOutputWriters}}
          ELSE {})

\* C11 as stated: every image is written for a batch index below the number
\* of output writers and in epoch 0; no later epoch and no later batch writes
\* an image of any kind.
C11_ImagesOnlyInFirstEpoch ==
    \A im \in images : im.writer < NumOutputWriters /\ im.epoch = 0

\* C11, amended: images are written only for batch indices below the number of
\* output writers; the ground truth and the input images only in epoch 0; the
\* predicted flow image for those batches in every epoch, under the epoch as
\* its step; the batches of a pass from that index on write nothing.
C11_OutputsInEveryEpoch ==
    /\ \A im \in images :
          /\ im.writer < NumOutputWriters
          /\ im.tag # "FlowNet Outputs" => im.epoch = 0
    /\ pc = "validate" =>
          {im \in images : im.epoch = epoch} = PassImages(it, epoch)

\* a pass of a later epoch went beyond the output writers and wrote images
C11_Witness ==
    /\ pc = "validate"
    /\ epoch > 0
    /\ it > NumOutputWriters
    /\ \E im \in images : im.epoch = epoch /\ im.writer = NumOutputWriters - 1

\* ---------------------------------------------------------------- C12
\* C12: the meters are zero at the entry of train and of validate, every
\* batch of the call adds its value times its batch size to the sum and its
\* batch size to the count, and the call returns sum / count of its own
\* batches: nothing of an earlier epoch or of the other phase is in the mean.
C12_MeansOfTheCall ==
    [][/\ (pc = "loop" /\ pc' = "train") =>
            /\ losses' = [sum |-> 0, count |-> 0]
            /\ flow2_EPEs' = [sum |-> 0, count |-> 0]
       /\ (pc = "val" /\ pc' = "validate") =>
            flow2_EPEs' = [sum |-> 0, count |-> 0]
       /\ (pc = "train" /\ pc' = "train") =>
            /\ losses'.sum = losses.sum + batch'.loss.val * batch'.size
            /\ losses'.count = losses.count + batch'.size
            /\ flow2_EPEs'.sum = flow2_EPEs.sum + batch'.EPE * batch'.size
            /\ flow2_EPEs'.count = flow2_EPEs.count + batch'.size
       /\ (pc = "validate" /\ pc' = "validate") =>
            /\ flow2_EPEs'.sum = flow2_EPEs.sum + batch'.EPE * batch'.size
            /\ flow2_EPEs'.count = flow2_EPEs.count + batch'.size
       /\ (pc = "train" /\ pc' = "sched" /\ losses.count > 0) =>
            /\ ret'.loss.num * losses.count = losses.sum * ret'.loss.den
            /\ ret'.EPE.num * flow2_EPEs.count = flow2_EPEs.sum * ret'.EPE.den
       /\ (pc = "validate" /\ pc' = "validated" /\ flow2_EPEs.count > 0) =>
            ret'.EPE.num * flow2_EPEs.count = flow2_EPEs.sum * ret'.EPE.den
      ]_vars

\* train returned, in a later epoch, the mean of batches of different sizes
C12_Witness ==
    /\ pc = "sched"
    /\ epoch > 0
    /\ ret.of = "train"
    /\ it > 1
    /\ ret.EPE.den > 2

\* ---------------------------------------------------------------- C13
\* C13: a call that raises while a training batch is processed ends the run:
\* the failing step advances neither n_iter nor the scheduler, the validation
\* count or the checkpoints, and no step follows it (no later batch, no
\* return of train, no scheduler step, validation or checkpoint).
C13_FailureAborts ==
    [][/\ (pc = "train" /\ pc' = "error") =>
            /\ n_iter' = n_iter
            /\ sched' = sched
            /\ checkpoints' = checkpoints
            /\ calls'.validate = calls.validate
            /\ calls'.train = calls.train
            /\ it' = it
       /\ pc # "error"
       /\ batch.variant # "failed"]_vars

\* the optimizer step of a batch raised after an earlier batch was processed
C13_Witness ==
    /\ pc = "error"
    /\ batch.variant = "failed"
    /\ batch.stage = "step"
    /\ n_iter > 0
    /\ Len(train_log) = n_iter + 1
    /\ optim.backward = n_iter + 1
    /\ optim.step = n_iter

\* ---------------------------------------------------------------- C14
\* C14: with a solver name other than 'adam' and 'sgd' the run ends before
\* train is entered: no batch, no optimizer step, n_iter = 0, no validation
\* pass and no checkpoint.
C14_BadSolverFailsFast ==
    args.solver \notin {"adam", "sgd"} =>
      /\ pc \in {"start", "error"}
      /\ n_iter = 0
      /\ optim = [zero_grad |-> 0, backward |-> 0, step |-> 0]
      /\ calls = [train |-> 0, validate |-> 0, model |-> 0]
      /\ checkpoints.count = 0
      /\ sched = 0
      /\ train_log = <<>>
      /\ images = {}

\* the run with the unknown solver has failed
C14_Witness ==
    /\ args.solver = "lbfgs"
    /\ pc = "error"
    /\ loaders.train > 0

\* ---------------------------------------------------------------- C15
\* C15: every batch of a call of train is processed by the one variant the
\* flags select (legacy when self_supervised_loss is false, whatever unflow
\* is; unflow when both are true; non-unflow otherwise); a legacy or
\* non-unflow batch calls the model once; every variant updates the loss and
\* EPE meters, and train returns their two means.
C15_OneVariantPerCall ==
    [][/\ (pc = "train" /\ pc' = "train") =>
            /\ batch'.variant =
                 (IF ~args.self_supervised_loss THEN "legacy"
                  ELSE IF args.unflow THEN "unflow" ELSE "selfsup")
            /\ batch.variant # "none" => batch'.variant = batch.variant
            /\ batch'.variant \in {"legacy", "selfsup"} =>
                 /\ calls'.model = calls.model + 1
                 /\ Cardinality({k \in 1..Len(batch'.trace) :
                                   batch'.trace[k].op \in ModelOps}) = 1
                 /\ \A k \in 1..Len(batch'.trace) : batch'.trace[k].op # "model_bw"
            /\ losses'.count = losses.count + batch'.size
            /\ flow2_EPEs'.count = flow2_EPEs.count + batch'.size
       /\ (pc = "train" /\ pc' = "sched") =>
            /\ ret'.of = "train"
            /\ ret'.loss = MeterAvg(losses)
            /\ ret'.EPE = MeterAvg(flow2_EPEs)]_vars

\* the legacy variant ran although unflow was set
C15_Witness ==
    /\ ~args.self_supervised_loss
    /\ args.unflow
    /\ batch.variant = "legacy"
    /\ it = 2
    /\ calls.model = 2

\* ---------------------------------------------------------------- C16
\* positions of an operation in a trace
Pos(trace, op) == {k \in 1..Len(trace) : trace[k].op = op}

LossOps == {"census", "sl", "ssim", "fb", "pl", "multiscaleEPE"}

TrainVariants == {"legacy", "unflow", "selfsup"}

\* C16: a processed batch of any variant zeroes the gradients, propagates the
\* loss backward and steps the optimizer, once each, one after the other in
\* this order, after every forward pass and every loss term of the batch; the
\* optimizer has never taken more steps than backward passes, nor more
\* backward passes than zero-grads.
C16_GradientUpdateOrder ==
    /\ (batch.variant \in TrainVariants /\ batch.ok) =>
         /\ Cardinality(Pos(batch.trace, "zero_grad")) = 1
         /\ Cardinality(Pos(batch.trace, "backward")) = 1
         /\ Cardinality(Pos(batch.trace, "step")) = 1
         /\ \A z \in Pos(batch.trace, "zero_grad") :
              /\ z + 2 <= Len(batch.trace)
              /\ batch.trace[z + 1].op = "backward"
              /\ batch.trace[z + 2].op = "step"
              /\ \A k \in 1..Len(batch.trace) :
                   batch.trace[k].op \in ModelOps \cup LossOps => k < z
         /\ \A name \in DOMAIN batch.terms :
              Len(batch.terms[name].evals) > 0 => Pos(batch.trace, name) # {}
    /\ optim.step <= optim.backward
    /\ optim.backward <= optim.zero_grad
    /\ optim.zero_grad <= optim.step + 1
    /\ (pc # "error" => optim.zero_grad = optim.step)

\* an unflow batch with all four terms on two levels went through its update
C16_Witness ==
    /\ batch.variant = "unflow"
    /\ batch.ok
    /\ levels = 2
    /\ \A name \in {"census", "sl", "ssim", "fb"} :
         Cardinality(Pos(batch.trace, name)) = 2
    /\ optim = [zero_grad |-> 1, backward |-> 1, step |-> 1]

\* ---------------------------------------------------------------- C17
\* C17 as stated: in a batch of the unflow variant the meters are updated
\* after the optimizer step, and n_iter is advanced after the meters.
C17_MetersAfterStep ==
    (batch.variant = "unflow" /\ batch.ok) =>
      \A s \in Pos(batch.trace, "step"), l \in Pos(batch.trace, "losses.update"),
         e \in Pos(batch.trace, "EPEs.update"), n \in Pos(batch.trace, "n_iter") :
        s < l /\ s < e /\ l < n /\ e < n

\* C17, amended: in a batch of the unflow variant the loss meter and then the
\* EPE meter are updated before the gradients are zeroed, that is before the
\* backward pass and the optimizer step; n_iter is advanced after the meters
\* and after the optimizer step.
C17_MetersBeforeStep ==
    (batch.variant = "unflow" /\ batch.ok) =>
      /\ Pos(batch.trace, "losses.update") # {}
      /\ Pos(batch.trace, "EPEs.update") # {}
      /\ Pos(batch.trace, "n_iter") = {Len(batch.trace)}
      /\ \A s \in Pos(batch.trace, "step"), l \in Pos(batch.trace, "losses.update"),
            e \in Pos(batch.trace, "EPEs.update"), z \in Pos(batch.trace, "zero_grad"),
            n \in Pos(batch.trace, "n_iter") :
           l < e /\ e < z /\ z < s /\ s < n

\* the first unflow batch is through: both meters hold it, one step was taken
C17_Witness ==
    /\ batch.variant = "unflow"
    /\ batch.ok
    /\ pc = "train"
    /\ losses.count = batch.size
    /\ flow2_EPEs.count = batch.size
    /\ optim.step = 1
    /\ n_iter = 1

\* ---------------------------------------------------------------- C18
\* C18: the batch an unflow iteration would have made of any other target
\* flow has the same loss terms, the same combined loss and the same sequence
\* of operations; the step updates the optimizer and the parameters in the
\* same way whatever the target; the target enters only the endpoint error,
\* div_flow times the error of pred_bw[0], that the EPE meter records.
C18_TargetOnlyInEPE ==
    [][(pc = "train" /\ pc' = "train" /\ batch'.variant = "unflow") =>
         /\ \A t \in dataset.targets :
              LET other == unflow_batch(config, batch'.im1, batch'.im2, t, batch'.size,
                                        batch'.pred_fw, batch'.pred_bw)
              IN /\ other.loss = batch'.loss
                 /\ other.terms = batch'.terms
                 /\ other.trace = batch'.trace
                 /\ other.ok = batch'.ok
                 /\ other.EPE = div_flow * Abs(batch'.pred_bw[0] - t)
         /\ batch'.EPE = div_flow * Abs(batch'.pred_bw[0] - batch'.target)
         /\ losses'.sum = losses.sum + batch'.loss.val * batch'.size
         /\ flow2_EPEs'.sum = flow2_EPEs.sum + batch'.EPE * batch'.size
         /\ params' = params + 1
         /\ optim' = [zero_grad |-> optim.zero_grad + 1,
                      backward |-> optim.backward + 1,
                      step |-> optim.step + 1]]_vars

\* an unflow batch whose endpoint error would differ under another target
C18_Witness ==
    /\ batch.variant = "unflow"
    /\ batch.ok
    /\ optim.step = 1
    /\ batch.EPE > 0
    /\ \E t \in dataset.targets :
         /\ t # batch.target
         /\ div_flow * Abs(batch.pred_bw[0] - t) # batch.EPE
    /\ batch.loss.val > 0

\* ---------------------------------------------------------------- C19
\* C19: n_iter is 0 at the start, grows by one with every processed training
\* batch and is left alone by every other step (validation, scheduler,
\* checkpoint, the next epoch, a batch that fails); it equals the number of
\* batches processed so far, which while no call has failed is the number of
\* optimizer steps and of 'train_loss' scalars, and the 'train_loss' scalars
\* are logged under strictly growing indices.
C19_IterationCounter ==
    /\ n_iter = 0
    /\ [][/\ n_iter' = (IF pc = "train" /\ pc' = "train" THEN n_iter + 1 ELSE n_iter)
           /\ (pc' # "error" => n_iter' = optim'.step)
           /\ (pc' # "error" => Len(train_log') = n_iter')
           /\ \A j \in 1..Len(train_log'), k \in 1..Len(train_log') :
                j < k => train_log'[j] < train_log'[k]]_vars

\* the first batch of the second epoch was processed under the index 2
C19_Witness ==
    /\ epoch = 1
    /\ pc = "train"
    /\ it = 1
    /\ n_iter = 3
    /\ train_log = <<0, 1, 2>>
    /\ calls.validate = 1

\* ---------------------------------------------------------------- C20
\* C20: the checkpoint step of epoch k writes one record, with epoch field
\* k + 1, and flags it as best exactly when k > 0 and the epoch's validation
\* EPE is strictly below the least validation EPE of the epochs before it;
\* no other step writes a record.
C20_IsBestFlag ==
    [][/\ (pc = "validated" /\ pc' = "ckpt" /\ epoch > 0) =>
            best_EPE = test_log.least
       /\ pc = "ckpt" =>
            /\ checkpoints'.count = epoch + 1
            /\ checkpoints'.count = checkpoints.count + 1
            /\ checkpoints'.state.epoch = epoch + 1
            /\ checkpoints'.best_count = checkpoints.best_count
                 + (IF epoch > 0 /\ RatLess(ret.EPE, best_EPE) THEN 1 ELSE 0)
            /\ (epoch = 0 => checkpoints'.best_count = 0)
       /\ pc # "ckpt" => checkpoints' = checkpoints]_vars

\* the second epoch tied with the first, and no record was flagged
C20_Witness ==
    /\ pc = "loop"
    /\ epoch = 2
    /\ checkpoints.count = 2
    /\ checkpoints.best_count = 0
    /\ best_EPE = test_log.least
    /\ checkpoints.state.best_EPE.num > 0

\* ---------------------------------------------------------------- C21
\* C21: with the evaluate flag set, main calls validate once, with epoch 0,
\* stores the mean it returns in best_EPE and is done; train is never called,
\* no batch is trained, the optimizer and the scheduler take no step, n_iter
\* stays 0 and no checkpoint is written.
C21_EvaluateOnly ==
    args.evaluate =>
      /\ pc \in {"start", "val", "validate", "validated", "done"}
      /\ calls.train = 0
      /\ n_iter = 0
      /\ train_log = <<>>
      /\ optim = [zero_grad |-> 0, backward |-> 0, step |-> 0]
      /\ params = 0
      /\ sched = 0
      /\ checkpoints.count = 0
      /\ epoch = 0
      /\ \A im \in images : im.epoch = 0 /\ im.step \in {0, 1}
      /\ calls.validate = (IF pc \in {"start", "val"} THEN 0 ELSE 1)
      /\ (pc = "done" => ret.of = "validate" /\ best_EPE = ret.EPE)
      /\ (pc # "done" => best_EPE.num = -1)

\* an evaluation run over two batches is done, with a positive mean EPE
C21_Witness ==
    /\ args.evaluate
    /\ pc = "done"
    /\ it = 2
    /\ best_EPE.num > 0
    /\ calls.model = 2
    /\ images # {}

\* ---------------------------------------------------------------- C22
\* the run is over after config["epochs"] epochs of one train call, one
\* scheduler step, one validate call and one checkpoint each, and best_EPE is
\* the value of the last record
RanAllEpochs ==
    /\ pc = "done"
    /\ epoch = config.epochs
    /\ calls.train = config.epochs
    /\ sched = config.epochs
    /\ calls.validate = config.epochs
    /\ checkpoints.count = config.epochs
    /\ best_EPE = checkpoints.state.best_EPE

\* C22: when every call of a collaborator returns, a run without the evaluate
\* flag reaches its end after exactly config["epochs"] epochs, and every call
\* of train and every call of validate returns.
C22_RunsAllEpochs ==
    /\ ~args.evaluate => <>RanAllEpochs
    /\ (pc = "train") ~> (pc = "sched")
    /\ (pc = "validate") ~> (pc = "validated")

\* some loss term of the variant in use is enabled
SomeTermEnabled ==
    train_variant(args) = "unflow" =>
      config.census \/ config.sl \/ config.ssim \/ config.fb

\* the same property for the configurations that enable a loss term
C22_RunsAllEpochsWithATerm ==
    /\ (~args.evaluate /\ SomeTermEnabled) => <>RanAllEpochs
    /\ (pc = "train" /\ SomeTermEnabled) ~> (pc = "sched")
    /\ (pc = "validate") ~> (pc = "validated")

====
